---- MODULE Spec2Model ----
(***************************************************************************)
(* Dependency resolution of pytask (src/pytask/resolve_dependencies.py):   *)
(* pytask_resolve_dependencies builds the DAG of tasks and data nodes,     *)
(* validates it (cycles, missing roots) and selects the tasks that can be  *)
(* skipped because nothing in their neighbourhood changed.                 *)
(***************************************************************************)
EXTENDS Integers, Sequences, FiniteSets, TLC

(* ----------------------------- bounds ---------------------------------- *)
NumTasks == 2          \* declared tasks
NumData == 2           \* names of data nodes (files)
MaxDeps == 1           \* length of a task's depends_on
MaxProds == 1          \* length of a task's produces
MaxFp == 2             \* fingerprints a persisted record may hold: 1..MaxFp
\* Only equality of fingerprints is observed, so every node that exists
\* reports this fingerprint; a record matches it or holds another value.
CurrentFp == 1

TaskNames == {<<"task", i>> : i \in 1..NumTasks}
DataNames == {<<"file", i>> : i \in 1..NumData}
Names == TaskNames \cup DataNames
\* fingerprints are opaque values compared by equality only
Fingerprints == {[fingerprint |-> i] : i \in 1..MaxFp}

None == [type |-> "None"]
\* node.state() raises NodeNotFoundError
NotFound == [type |-> "NodeNotFoundError"]
\* State[task, node] raises orm.ObjectNotFound
ObjectNotFound == [type |-> "ObjectNotFound"]

VARIABLES
    tasks,           \* session.tasks: name -> [depends_on, produces]
    state,           \* what node.state() yields for each name
    db,              \* the State table: <<task name, node name>> -> record
    markers,         \* task.markers of each task payload
    session,         \* session.dag, session.resolving_dependencies_report
    pc,              \* position inside pytask_resolve_dependencies
    sorted,          \* the rest of `tasks` of the selection loop (line 66)
    visited_nodes,   \* visited_nodes of the selection loop (line 67)
    exc,             \* the exception in flight
    reports,         \* ResolvingDependenciesReport objects created
    logged,          \* reports handed to pytask_resolve_dependencies_log
    result,          \* what pytask_resolve_dependencies gave its caller
    hook_calls,      \* the hooks session.hook has invoked, in order
    root_queries,    \* nodes whose state() the root check has called
    evaluated        \* tasks given to _have_task_or_neighbors_changed

vars == <<tasks, state, db, markers, session, pc, sorted, visited_nodes, exc,
          reports, logged, result, hook_calls, root_queries, evaluated>>

(* --------------------------- graph (networkx) -------------------------- *)
EmptyDiGraph == [nodes |-> {}, task |-> {}, node |-> {}, edges |-> {}]

\* dag.add_node(name, task=...) / dag.add_node(name, node=...)
add_node(dag, name, attr) ==
    IF attr = "task"
    THEN [dag EXCEPT !.nodes = @ \cup {name}, !.task = @ \cup {name}]
    ELSE [dag EXCEPT !.nodes = @ \cup {name}, !.node = @ \cup {name}]

add_edge(dag, u, v) ==
    [dag EXCEPT !.nodes = @ \cup {u, v}, !.edges = @ \cup {<<u, v>>}]

predecessors(dag, n) == {u \in dag.nodes : <<u, n>> \in dag.edges}
successors(dag, n) == {v \in dag.nodes : <<n, v>> \in dag.edges}

RECURSIVE ReachFrom(_, _)
\* the nodes reachable from the set `front` along edges, `front` included
ReachFrom(dag, front) ==
    LET next == front \cup UNION {successors(dag, n) : n \in front}
    IN IF next = front THEN front ELSE ReachFrom(dag, next)

\* nx.descendants(dag, n): reachable by at least one edge, n itself left out
descendants(dag, n) == ReachFrom(dag, successors(dag, n)) \ {n}

\* the edge lists that extend a simple path of `paths` by one edge
ExtendPaths(dag, paths) ==
    {Append(pe[1], pe[2]) :
        pe \in {x \in paths \X dag.edges :
                  /\ x[2][1] = x[1][Len(x[1])][2]
                  /\ \A i \in 1..Len(x[1]) : x[1][i][1] # x[2][1]}}

RECURSIVE SimplePaths(_, _)
\* `paths` and all their extensions: the edge lists of simple paths
SimplePaths(dag, paths) ==
    IF paths = {} THEN {}
    ELSE paths \cup SimplePaths(dag, ExtendPaths(dag, paths))

\* Edge lists nx.find_cycle may return: the edges of a simple directed cycle,
\* in path order.  Which cycle is found depends on the iteration order of the
\* graph, so every simple cycle is a possible outcome.
find_cycle(dag) ==
    {c \in SimplePaths(dag, {<<e>> : e \in dag.edges}) : c[Len(c)][2] = c[1][1]}

(* --------------------------- create_dag -------------------------------- *)
\* `tasks` is a list of tasks, each with a name and the lists depends_on and
\* produces of node names.

RECURSIVE AddDependencies_skip_known(_, _, _)
\* mutant: a dependency already in the graph gets no further edge
AddDependencies_skip_known(dag, task_name, deps) ==
    IF deps = <<>> THEN dag
    ELSE LET dependency == Head(deps)
         IN AddDependencies_skip_known(
                IF dependency \in dag.nodes THEN dag
                ELSE add_edge(add_node(dag, dependency, "node"), dependency, task_name),
                task_name, Tail(deps))

RECURSIVE AddProducts_reversed(_, _, _)
\* mutant: the edge of a product points from the product to the task
AddProducts_reversed(dag, task_name, prods) ==
    IF prods = <<>> THEN dag
    ELSE LET product == Head(prods)
         IN AddProducts_reversed(
                add_edge(add_node(dag, product, "node"), product, task_name),
                task_name, Tail(prods))

RECURSIVE AddDependencies(_, _, _)
AddDependencies(dag, task_name, deps) ==
    IF deps = <<>> THEN dag
    ELSE LET dependency == Head(deps)
         IN AddDependencies(
                add_edge(add_node(dag, dependency, "node"), dependency, task_name),
                task_name, Tail(deps))

RECURSIVE AddProducts(_, _, _)
AddProducts(dag, task_name, prods) ==
    IF prods = <<>> THEN dag
    ELSE LET product == Head(prods)
         IN AddProducts(
                add_edge(add_node(dag, product, "node"), task_name, product),
                task_name, Tail(prods))

RECURSIVE AddTasks(_, _)
AddTasks(dag, task_list) ==
    IF task_list = <<>> THEN dag
    ELSE LET task == Head(task_list)
             withTask == add_node(dag, task.name, "task")
             withDeps == AddDependencies(withTask, task.name, task.depends_on)
             withProds == AddProducts(withDeps, task.name, task.produces)
         IN AddTasks(withProds, Tail(task_list))

pytask_resolve_dependencies_create_dag(task_list) ==
    AddTasks(EmptyDiGraph, task_list)

\* the lists that hold the elements of S once each
Orderings(S) ==
    {o \in [1..Cardinality(S) -> S] :
        \A i, j \in 1..Cardinality(S) : i # j => o[i] # o[j]}

RECURSIVE ListingsOf(_, _)
\* The lists of tasks session.tasks may be for the declarations ts: the tasks
\* of `todo` in any order, each with its depends_on and produces in any order.
ListingsOf(ts, todo) ==
    IF todo = {} THEN {<<>>}
    ELSE UNION {
           {<<[name |-> x[1], depends_on |-> x[2], produces |-> x[3]]>> \o rest :
               rest \in ListingsOf(ts, todo \ {x[1]})} :
           x \in UNION {{t} \X Orderings(ts[t].depends_on) \X Orderings(ts[t].produces) :
                          t \in todo}}

Listings(ts) == ListingsOf(ts, DOMAIN ts)

(* --------------------------- pytask.dag -------------------------------- *)
node_and_neigbors(dag, node) ==
    {node} \cup predecessors(dag, node) \cup successors(dag, node)

task_and_descending_tasks(task_name, dag) ==
    {task_name} \cup {d \in descendants(dag, task_name) : d \in dag.task}

\* every order of the task nodes that is the restriction of a topological
\* order of the graph
sort_tasks_topologically(dag) ==
    LET n == Cardinality(dag.task)
    IN {s \in [1..n -> dag.task] :
          /\ \A i, j \in 1..n : i # j => s[i] # s[j]
          /\ \A i, j \in 1..n : i < j => s[i] \notin descendants(dag, s[j])}

(* --------------------------- selection --------------------------------- *)
\* State[task_name, node.name].state, or orm.ObjectNotFound
\* mutant: the key is given as (node name, task name)
State_swapped_key(task_name, name) ==
    IF <<name, task_name>> \in DOMAIN db THEN db[<<name, task_name>>]
    ELSE ObjectNotFound

State(task_name, name) ==
    IF <<task_name, name>> \in DOMAIN db THEN db[<<task_name, name>>]
    ELSE ObjectNotFound

\* mutant: a node that does not exist counts as unchanged
_has_node_changed_ignoring_missing_node(task_name, name) ==
    IF state[name] = NotFound THEN FALSE
    ELSE IF State(task_name, name) = ObjectNotFound THEN TRUE
    ELSE ~(state[name] = State(task_name, name))

\* mutant: a key without a record counts as unchanged
_has_node_changed_ignoring_missing_record(task_name, name) ==
    IF state[name] = NotFound THEN TRUE
    ELSE IF State(task_name, name) = ObjectNotFound THEN FALSE
    ELSE ~(state[name] = State(task_name, name))

_has_node_changed(task_name, name) ==
    IF state[name] = NotFound THEN TRUE
    ELSE IF State(task_name, name) = ObjectNotFound THEN TRUE
    ELSE ~(state[name] = State(task_name, name))

\* mutant: only the task and its dependencies are looked at
_have_task_or_dependencies_changed(task_name, dag) ==
    \E node \in {task_name} \cup predecessors(dag, task_name) :
        _has_node_changed(task_name, node)

_have_task_or_neighbors_changed(task_name, dag) ==
    \E node \in node_and_neigbors(dag, task_name) :
        _has_node_changed(task_name, node)

\* any() stops at the first changed node of chain([node], predecessors,
\* successors): the nodes that come before `name` in every such order
ComesBefore(dag, task_name, name) ==
    IF name = task_name THEN {}
    ELSE IF name \in predecessors(dag, task_name) THEN {task_name}
    ELSE {task_name} \cup predecessors(dag, task_name)

\* _has_node_changed(task_name, name) is called in some iteration order
IsQueried(dag, task_name, name) ==
    /\ name \in node_and_neigbors(dag, task_name)
    /\ \A m \in ComesBefore(dag, task_name, name) : ~_has_node_changed(task_name, m)

\* Exceptions that leave _has_node_changed: node.state() raising anything but
\* NodeNotFoundError, State[...] raising anything but orm.ObjectNotFound.
StateQueryError == [type |-> "StateQueryError"]
PersistedStateLookupError == [type |-> "PersistedStateLookupError"]

_has_node_changed_raises(dag, task_name) ==
    {StateQueryError : name \in {n \in dag.nodes : IsQueried(dag, task_name, n)}}
    \cup {PersistedStateLookupError :
            name \in {n \in dag.nodes : /\ IsQueried(dag, task_name, n)
                                        /\ state[n] # NotFound}}

\* mutant: every marker is named "skip"
Mark_skip(name) == "skip"

Mark(name) == name

\* lines 71-77: the two branches of one iteration
\* mutant: a changed task is recorded without its descendants
select_visited_task_only(task_name, dag, visited) ==
    IF _have_task_or_neighbors_changed(task_name, dag)
    THEN visited \cup {task_name}
    ELSE visited

select_visited(task_name, dag, visited) ==
    IF _have_task_or_neighbors_changed(task_name, dag)
    THEN visited \cup task_and_descending_tasks(task_name, dag)
    ELSE visited

\* mutant: the marker is attached whatever the evaluation says
select_markers_always(task_name, dag, mks) ==
    [mks EXCEPT ![task_name] = Append(@, Mark("skip_unchanged"))]

select_markers(task_name, dag, mks) ==
    IF _have_task_or_neighbors_changed(task_name, dag)
    THEN mks
    ELSE [mks EXCEPT ![task_name] = Append(@, Mark("skip_unchanged"))]

(* --------------------------- validation -------------------------------- *)
\* Each check yields the set of its possible outcomes.  For the cycle check an
\* outcome is None (it returns) or the exception it raises; the root check and
\* the validation hook pair it with the nodes whose state() was called.
ResolvingDependenciesError == [type |-> "ResolvingDependenciesError"]

\* mutant: the cycles found are dropped
_check_if_dag_has_cycles_passing(dag) == {None}

_check_if_dag_has_cycles(dag) ==
    IF find_cycle(dag) = {} THEN {None}
    ELSE {[type |-> "ResolvingDependenciesError", cycles |-> cycles] :
             cycles \in find_cycle(dag)}

\* nodes the loop of _check_if_root_nodes_are_available queries
\* mutant: every data node is taken for a root
RootNodes_any_data_node(dag) == {n \in dag.nodes : n \in dag.node}

RootNodes(dag) ==
    {n \in dag.nodes : n \in dag.node /\ Cardinality(predecessors(dag, n)) = 0}

\* The loop follows dag.nodes and stops at the first root whose state() raises,
\* so any missing root may be the one reported, any root may be the one whose
\* query fails otherwise, and any of the existing roots may have been queried
\* before it.  An outcome is the exception raised (None: the check returns)
\* with the nodes whose state() was called.
QueriedBefore(dag, n) ==
    {{n} \cup S : S \in SUBSET {r \in RootNodes(dag) \ {n} : state[r] # NotFound}}

\* mutant: the error names the node with its predecessors
_check_if_root_nodes_are_available_predecessors(dag) ==
    {[exc |-> [type |-> "NodeNotFoundError", node |-> x[1],
               successors |-> predecessors(dag, x[1])],
      queried |-> x[2]] :
        x \in UNION {{n} \X QueriedBefore(dag, n) :
                       n \in {r \in RootNodes(dag) : state[r] = NotFound}}}
    \cup {[exc |-> StateQueryError, queried |-> x[2]] :
            x \in UNION {{n} \X QueriedBefore(dag, n) : n \in RootNodes(dag)}}
    \cup (IF \A r \in RootNodes(dag) : state[r] # NotFound
          THEN {[exc |-> None, queried |-> RootNodes(dag)]} ELSE {})

_check_if_root_nodes_are_available(dag) ==
    {[exc |-> [type |-> "NodeNotFoundError", node |-> x[1],
               successors |-> successors(dag, x[1])],
      queried |-> x[2]] :
        x \in UNION {{n} \X QueriedBefore(dag, n) :
                       n \in {r \in RootNodes(dag) : state[r] = NotFound}}}
    \cup {[exc |-> StateQueryError, queried |-> x[2]] :
            x \in UNION {{n} \X QueriedBefore(dag, n) : n \in RootNodes(dag)}}
    \cup (IF \A r \in RootNodes(dag) : state[r] # NotFound
          THEN {[exc |-> None, queried |-> RootNodes(dag)]} ELSE {})

\* mutant: the roots are checked before the cycles
pytask_resolve_dependencies_validate_dag_roots_first(dag) ==
    LET roots == _check_if_root_nodes_are_available(dag)
    IN {o \in roots : o.exc # None}
       \cup {[exc |-> e, queried |-> o.queried] :
               o \in {x \in roots : x.exc = None},
               e \in _check_if_dag_has_cycles(dag)}

pytask_resolve_dependencies_validate_dag(dag) ==
    LET cyc == _check_if_dag_has_cycles(dag)
    IN {[exc |-> e, queried |-> {}] : e \in cyc \ {None}}
       \cup (IF None \in cyc THEN _check_if_root_nodes_are_available(dag) ELSE {})

ResolvingDependenciesReport(exc_info) == [exc_info |-> exc_info]

(* --------------------------- initial states ---------------------------- *)
Refs(max) == {s \in SUBSET DataNames : Cardinality(s) <= max}

\* the nodes a task declares: the keys its records can be read under
Declared(ts, t) == {t} \cup ts[t].depends_on \cup ts[t].produces

\* The State table holds rows; a key without a row raises orm.ObjectNotFound.
\* Rows under keys a task does not declare are never read and are left out.
DeclaredKeys(ts) == {k \in TaskNames \X Names : k[2] \in Declared(ts, k[1])}
Tables(ts) == UNION {[K -> Fingerprints] : K \in SUBSET DeclaredKeys(ts)}

Init ==
    /\ tasks \in [TaskNames -> [depends_on : Refs(MaxDeps), produces : Refs(MaxProds)]]
    /\ state \in {f \in [Names -> {NotFound, [fingerprint |-> CurrentFp]}] :
                     \A t \in TaskNames : f[t] # NotFound}
    /\ db \in Tables(tasks)
    /\ markers = [t \in TaskNames |-> <<>>]
    /\ session = [dag |-> None, resolving_dependencies_report |-> None]
    /\ pc = "create_dag"
    /\ sorted = <<>>
    /\ visited_nodes = {}
    /\ exc = None
    /\ reports = <<>>
    /\ logged = <<>>
    /\ result = None
    /\ hook_calls = <<>>
    /\ root_queries = {}
    /\ evaluated = {}

(* --------------------------- actions ----------------------------------- *)
inputs == <<tasks, state, db>>

\* lines 30-32
CreateDag ==
    /\ pc = "create_dag"
    /\ \E task_list \in Listings(tasks) :
          session' = [session EXCEPT
                         !.dag = pytask_resolve_dependencies_create_dag(task_list)]
    /\ pc' = "validate_dag"
    /\ hook_calls' = Append(hook_calls, "pytask_resolve_dependencies_create_dag")
    /\ UNCHANGED <<inputs, markers, sorted, visited_nodes, exc, reports, logged, result,
                   root_queries, evaluated>>

\* mutant: an error of validation is stored and the selection goes on
ValidateDag_ignoring_errors ==
    /\ pc = "validate_dag"
    /\ \E o \in pytask_resolve_dependencies_validate_dag(session.dag) :
          /\ root_queries' = o.queried
          /\ exc' = o.exc
    /\ pc' = "select_execution_dag"
    /\ hook_calls' = Append(hook_calls, "pytask_resolve_dependencies_validate_dag")
    /\ UNCHANGED <<inputs, markers, session, sorted, visited_nodes, reports, logged, result,
                   evaluated>>

\* line 33
ValidateDag ==
    /\ pc = "validate_dag"
    /\ \E o \in pytask_resolve_dependencies_validate_dag(session.dag) :
          /\ root_queries' = o.queried
          /\ IF o.exc = None
             THEN pc' = "select_execution_dag" /\ exc' = exc
             ELSE pc' = "except" /\ exc' = o.exc
    /\ hook_calls' = Append(hook_calls, "pytask_resolve_dependencies_validate_dag")
    /\ UNCHANGED <<inputs, markers, session, sorted, visited_nodes, reports, logged, result,
                   evaluated>>

\* mutant: the tasks are taken in any order, topological or not
SelectStart_any_order ==
    /\ pc = "select_execution_dag"
    /\ sorted' \in Orderings(TaskNames)
    /\ visited_nodes' = {}
    /\ pc' = "select_loop"
    /\ hook_calls' = Append(hook_calls, "pytask_resolve_dependencies_select_execution_dag")
    /\ UNCHANGED <<inputs, markers, session, exc, reports, logged, result, root_queries,
                   evaluated>>

\* lines 34, 66-67
SelectStart ==
    /\ pc = "select_execution_dag"
    /\ sorted' \in sort_tasks_topologically(session.dag)
    /\ visited_nodes' = {}
    /\ pc' = "select_loop"
    /\ hook_calls' = Append(hook_calls, "pytask_resolve_dependencies_select_execution_dag")
    /\ UNCHANGED <<inputs, markers, session, exc, reports, logged, result, root_queries,
                   evaluated>>

\* mutant: the iteration does not look at visited_nodes (line 70 dropped)
SelectTask_evaluating_all ==
    /\ pc = "select_loop"
    /\ sorted # <<>>
    /\ LET task_name == Head(sorted)
           dag == session.dag
       IN /\ evaluated' = evaluated \cup {task_name}
          /\ \/ /\ sorted' = Tail(sorted)
                /\ visited_nodes' = select_visited(task_name, dag, visited_nodes)
                /\ markers' = select_markers(task_name, dag, markers)
                /\ UNCHANGED <<pc, exc>>
             \/ /\ \E e \in _has_node_changed_raises(dag, task_name) : exc' = e
                /\ pc' = "except"
                /\ UNCHANGED <<sorted, markers, visited_nodes>>
    /\ UNCHANGED <<inputs, session, reports, logged, result, hook_calls, root_queries>>

\* lines 68-77, one iteration
SelectTask ==
    /\ pc = "select_loop"
    /\ sorted # <<>>
    /\ LET task_name == Head(sorted)
           dag == session.dag
       IN IF task_name \in visited_nodes
          THEN /\ sorted' = Tail(sorted)
               /\ UNCHANGED <<markers, visited_nodes, pc, exc, evaluated>>
          ELSE /\ evaluated' = evaluated \cup {task_name}
               /\ \/ /\ sorted' = Tail(sorted)
                     /\ visited_nodes' = select_visited(task_name, dag, visited_nodes)
                     /\ markers' = select_markers(task_name, dag, markers)
                     /\ UNCHANGED <<pc, exc>>
                  \/ /\ \E e \in _has_node_changed_raises(dag, task_name) : exc' = e
                     /\ pc' = "except"
                     /\ UNCHANGED <<sorted, markers, visited_nodes>>
    /\ UNCHANGED <<inputs, session, reports, logged, result, hook_calls, root_queries>>

\* lines 42-43
Return ==
    /\ pc = "select_loop"
    /\ sorted = <<>>
    /\ result' = [type |-> "True"]
    /\ pc' = "returned"
    /\ UNCHANGED <<inputs, markers, session, sorted, visited_nodes, exc, reports, logged,
                   hook_calls, root_queries, evaluated>>

\* mutant: the report is stored but not handed to the logging hook
Except_not_logged ==
    /\ pc = "except"
    /\ LET report == ResolvingDependenciesReport(exc)
       IN /\ reports' = Append(reports, report)
          /\ session' = [session EXCEPT !.resolving_dependencies_report = report]
    /\ exc' = [type |-> "ResolvingDependenciesError", context |-> exc]
    /\ result' = ResolvingDependenciesError
    /\ pc' = "raised"
    /\ UNCHANGED <<inputs, markers, sorted, visited_nodes, logged, hook_calls,
                   root_queries, evaluated>>

\* lines 35-40
Except ==
    /\ pc = "except"
    /\ LET report == ResolvingDependenciesReport(exc)
       IN /\ reports' = Append(reports, report)
          /\ logged' = Append(logged, report)
          /\ session' = [session EXCEPT !.resolving_dependencies_report = report]
    /\ hook_calls' = Append(hook_calls, "pytask_resolve_dependencies_log")
    \* `raise ResolvingDependenciesError` inside the handler: the exception
    \* handled becomes the context of the one raised
    /\ exc' = [type |-> "ResolvingDependenciesError", context |-> exc]
    /\ result' = ResolvingDependenciesError
    /\ pc' = "raised"
    /\ UNCHANGED <<inputs, markers, sorted, visited_nodes, root_queries, evaluated>>

Next == CreateDag \/ ValidateDag \/ SelectStart \/ SelectTask \/ Return \/ Except

Spec == Init /\ [][Next]_vars

(* ======================================================================= *)
(* Properties.  They are stated over the declarations (tasks), the node    *)
(* states and the State table, not over the graph the builder produced.    *)
(* ======================================================================= *)
SkipUnchanged(t) == \E i \in 1..Len(markers[t]) : markers[t][i] = "skip_unchanged"

Neighbourhood(t) == {t} \cup tasks[t].depends_on \cup tasks[t].produces

DeclEdges ==
    {e \in Names \X Names :
        \/ e[2] \in TaskNames /\ e[1] \in tasks[e[2]].depends_on
        \/ e[1] \in TaskNames /\ e[2] \in tasks[e[1]].produces}

RECURSIVE PathWithin(_, _, _, _)
PathWithin(edges, a, b, k) ==
    /\ k > 0
    /\ \/ <<a, b>> \in edges
       \/ \E e \in edges : e[1] = a /\ PathWithin(edges, e[2], b, k - 1)

\* a directed path of at least one edge leads from a to b
Reaches(a, b) == PathWithin(DeclEdges, a, b, Cardinality(Names))

DeclHasCycle == \E n \in Names : Reaches(n, n)

\* the record under (t, n) exists and equals the current fingerprint of n
Unchanged(t, n) ==
    /\ state[n] # NotFound
    /\ <<t, n>> \in DOMAIN db
    /\ db[<<t, n>>] = state[n]

NeighbourhoodUnchanged(t) == \A n \in Neighbourhood(t) : Unchanged(t, n)

\* the exception that ended the resolution, None when there is none
Cause ==
    IF pc = "except" THEN exc
    ELSE IF pc = "raised" THEN exc.context
    ELSE None

ValidationDone ==
    \E i \in 1..Len(hook_calls) : hook_calls[i] = "pytask_resolve_dependencies_validate_dag"

SelectionStarted ==
    \E i \in 1..Len(hook_calls) :
        hook_calls[i] = "pytask_resolve_dependencies_select_execution_dag"

IsCycleError(e) == e.type = "ResolvingDependenciesError" /\ "cycles" \in DOMAIN e
IsMissingRootError(e) == e.type = "NodeNotFoundError"
IsQueryFailure(e) == e.type \in {"StateQueryError", "PersistedStateLookupError"}

\* data nodes some task depends on and no task produces
DeclRoots ==
    {n \in DataNames : /\ \E t \in TaskNames : n \in tasks[t].depends_on
                       /\ \A t \in TaskNames : n \notin tasks[t].produces}
MissingRoots == {n \in DeclRoots : state[n] = NotFound}

(* C1: when the select pass has finished, no task reachable from a task    *)
(* without a skip_unchanged marker carries a skip_unchanged marker.        *)
C1_MonotonicInvalidation ==
    pc = "returned" =>
        \A t, d \in TaskNames :
            (~SkipUnchanged(t) /\ Reaches(t, d)) => ~SkipUnchanged(d)

\* a finished pass where a task whose own neighbourhood is unchanged is not
\* skipped because it is reachable from a task that is not skipped
C1_Witness ==
    /\ pc = "returned"
    /\ \E t, d \in TaskNames :
          /\ t # d /\ Reaches(t, d)
          /\ ~SkipUnchanged(t) /\ ~SkipUnchanged(d)
          /\ NeighbourhoodUnchanged(d)

(* C2: a task carrying skip_unchanged has, for every node of its one-hop   *)
(* neighbourhood, a node of the graph that exists and whose record under   *)
(* (task, node) equals its current fingerprint.                            *)
C2_SkipSoundness ==
    \A t \in TaskNames :
        SkipUnchanged(t) =>
            /\ session.dag # None
            /\ \A n \in Neighbourhood(t) : n \in session.dag.nodes /\ Unchanged(t, n)

\* a skipped task with a dependency and a product
C2_Witness ==
    \E t \in TaskNames :
        /\ SkipUnchanged(t)
        /\ tasks[t].depends_on # {} /\ tasks[t].produces # {}
        /\ tasks[t].depends_on # tasks[t].produces

\* t was put in visited_nodes as a descendant of a task evaluated as changed:
\* a task upstream of t is in visited_nodes
PropagatedTo(t) ==
    \E u \in TaskNames : u # t /\ Reaches(u, t) /\ u \in visited_nodes

(* C3: when the pass has finished, a task whose whole neighbourhood is     *)
(* unchanged and which was not put in visited_nodes by propagation from a  *)
(* changed upstream task carries skip_unchanged.                           *)
C3_UnchangedStability ==
    pc = "returned" =>
        \A t \in TaskNames :
            (NeighbourhoodUnchanged(t) /\ ~PropagatedTo(t)) => SkipUnchanged(t)

\* a finished pass that skipped a task with neighbours while another task,
\* not upstream of it, was found changed
C3_Witness ==
    /\ pc = "returned"
    /\ \E t, u \in TaskNames :
          /\ NeighbourhoodUnchanged(t) /\ ~PropagatedTo(t) /\ SkipUnchanged(t)
          /\ Cardinality(Neighbourhood(t)) > 1
          /\ u \in visited_nodes

(* C4: with no persisted record at all, no task is marked skip_unchanged.  *)
C4_FirstRunConservatism ==
    DOMAIN db = {} => \A t \in TaskNames : ~SkipUnchanged(t)

\* a finished pass over existing artifacts with an empty State table
C4_Witness ==
    /\ DOMAIN db = {}
    /\ pc = "returned"
    /\ \A n \in Names : state[n] # NotFound
    /\ \E t \in TaskNames : Cardinality(Neighbourhood(t)) > 1

\* task A produces file1, task B depends on file1; every record of both
\* neighbourhoods is present; the tasks' records match; the records of file1
\* hold its former fingerprint, which differs from the current one
ScenarioFile1Changed ==
    LET A == <<"task", 1>>
        B == <<"task", 2>>
        file1 == <<"file", 1>>
    IN /\ tasks[A] = [depends_on |-> {}, produces |-> {file1}]
       /\ tasks[B] = [depends_on |-> {file1}, produces |-> {}]
       /\ Unchanged(A, A) /\ Unchanged(B, B)
       /\ state[file1] # NotFound
       /\ <<A, file1>> \in DOMAIN db /\ <<B, file1>> \in DOMAIN db
       /\ db[<<A, file1>>] = db[<<B, file1>>]
       /\ db[<<A, file1>>] # state[file1]

(* C5, as stated: in the scenario the pass leaves B without skip_unchanged *)
(* and A marked skip_unchanged.                                            *)
C5_AsStated ==
    (ScenarioFile1Changed /\ pc = "returned") =>
        (~SkipUnchanged(<<"task", 2>>) /\ SkipUnchanged(<<"task", 1>>))

(* C5, amended: in the scenario the pass leaves both A and B without       *)
(* skip_unchanged, file1 being a product in A's own neighbourhood.         *)
C5_ScenarioBothChanged ==
    (ScenarioFile1Changed /\ pc = "returned") =>
        (~SkipUnchanged(<<"task", 2>>) /\ ~SkipUnchanged(<<"task", 1>>))

C5_Witness == ScenarioFile1Changed /\ pc = "returned"

\* the edge list is a closed path of declared edges
ClosedPath(c) ==
    /\ Len(c) > 0
    /\ \A i \in 1..Len(c) : c[i] \in DeclEdges
    /\ \A i \in 1..(Len(c) - 1) : c[i][2] = c[i + 1][1]
    /\ c[Len(c)][2] = c[1][1]

(* C6: validation fails with the cycle error exactly when the declared     *)
(* graph has a directed cycle, and the edges the error carries form a      *)
(* closed path of the graph.                                               *)
C6_CycleSoundness ==
    ValidationDone =>
        /\ IsCycleError(Cause) <=> DeclHasCycle
        /\ IsCycleError(Cause) => ClosedPath(Cause.cycles)

\* the cycle A -> x -> B -> y -> A has been reported
C6_Witness ==
    /\ pc = "raised"
    /\ IsCycleError(Cause)
    /\ Len(Cause.cycles) = 4

C8_AtomicFailure ==
    pc = "raised" =>
        /\ session.dag = None
        /\ \A t \in TaskNames : ~SkipUnchanged(t)

(* C9: a failing state query or record lookup during selection never       *)
(* aborts the resolution: selection raises nothing.                        *)
C9_ConservativeErrorPolicy ==
    ~(SelectionStarted /\ pc \in {"except", "raised"} /\ IsQueryFailure(Cause))

MaxRefs == 2

BuildRefs == {s \in SUBSET Names : Cardinality(s) <= MaxRefs}

InitBuild ==
    /\ tasks \in [TaskNames -> [depends_on : BuildRefs, produces : BuildRefs]]
    /\ state = [n \in Names |-> [fingerprint |-> CurrentFp]]
    /\ db = <<>>
    /\ markers = [t \in TaskNames |-> <<>>]
    /\ session = [dag |-> None, resolving_dependencies_report |-> None]
    /\ pc = "create_dag"
    /\ sorted = <<>>
    /\ visited_nodes = {}
    /\ exc = None
    /\ reports = <<>>
    /\ logged = FALSE
    /\ result = None
    /\ hook_calls = <<>>
    /\ root_queries = {}
    /\ evaluated = {}

\* create_dag called a second time on the same declarations
CreateDagAgain ==
    /\ pc = "validate_dag"
    /\ \E task_list \in Listings(tasks) :
          result' = pytask_resolve_dependencies_create_dag(task_list)
    /\ pc' = "built_twice"
    /\ hook_calls' = Append(hook_calls, "pytask_resolve_dependencies_create_dag")
    /\ UNCHANGED <<inputs, markers, session, sorted, visited_nodes, exc, reports, logged,
                   root_queries, evaluated>>

NextBuild == CreateDag \/ CreateDagAgain

SpecBuild == InitBuild /\ [][NextBuild]_vars

\* the names some task lists as a dependency or as a product
Referenced == UNION {tasks[t].depends_on \cup tasks[t].produces : t \in TaskNames}

\* the tasks that list n
Referencing(n) == {t \in TaskNames : n \in tasks[t].depends_on \cup tasks[t].produces}

\* C11: whatever order the tasks and each task's depends_on and produces are
\* listed in, create_dag gives the same set of nodes and the same set of edges;
\* a second build gives them again; and a name several tasks list is one node
\* with one edge for each reference to it (the nodes are the tasks and the
\* names listed, the edges exactly the declared references).
C11_OrderIndependentBuild ==
    session.dag # None =>
        /\ \A task_list \in Listings(tasks) :
              LET dag == pytask_resolve_dependencies_create_dag(task_list)
              IN dag.nodes = session.dag.nodes /\ dag.edges = session.dag.edges
        /\ pc = "built_twice" =>
              result.nodes = session.dag.nodes /\ result.edges = session.dag.edges
        /\ session.dag.nodes = TaskNames \cup Referenced
        /\ session.dag.edges = DeclEdges

\* built twice, with a name two tasks list and a task with two dependencies
C11_Witness ==
    /\ pc = "built_twice"
    /\ \E n \in DataNames : Cardinality(Referencing(n)) = 2
    /\ \E t \in TaskNames : Cardinality(tasks[t].depends_on) = 2

\* no task lists the name of a task as a dependency or as a product
NoNameCollision == Referenced \cap TaskNames = {}

OnePayloadPerNode(dag) ==
    /\ \A n \in dag.nodes : (n \in dag.task) # (n \in dag.node)
    /\ \A e \in dag.edges : {e[1], e[2]} \subseteq dag.task \cup dag.node

EdgesJoinDataAndTask(dag) ==
    /\ \A e \in dag.edges :
          \/ e[1] \in dag.node \ dag.task /\ e[2] \in dag.task \ dag.node
          \/ e[1] \in dag.task \ dag.node /\ e[2] \in dag.node \ dag.task
    /\ \A t \in TaskNames, n \in Names :
          /\ <<n, t>> \in dag.edges <=> n \in tasks[t].depends_on
          /\ <<t, n>> \in dag.edges <=> n \in tasks[t].produces

Selecting == pc \in {"select_execution_dag", "select_loop"}

\* C13: a step of the select pass leaves the graph (nodes, edges, payload
\* bindings), the declarations, the current states and every persisted record
\* as they are; the only change to a marker list is one skip_unchanged added
\* at its end.
C13_SelectorFrame ==
    [][Selecting =>
          /\ session' = session
          /\ tasks' = tasks
          /\ state' = state
          /\ db' = db
          /\ \A t \in TaskNames :
                \/ markers'[t] = markers[t]
                \/ markers'[t] = Append(markers[t], "skip_unchanged")]_vars

\* a finished pass over a graph with edges and records that marked some task
C13_Witness ==
    /\ pc = "returned"
    /\ session.dag.edges # {}
    /\ DOMAIN db # {}
    /\ \E t \in TaskNames : markers[t] = <<"skip_unchanged">>

\* the tasks that list n as a dependency
Dependents(n) == {t \in TaskNames : n \in tasks[t].depends_on}

\* C14: the error of a missing root names a data node no task produces, some
\* task depends on and whose state() reported that it does not exist, with
\* exactly the tasks that depend on it.
C14_MissingRootReport ==
    IsMissingRootError(Cause) =>
        /\ Cause.node \in MissingRoots
        /\ Cause.successors = Dependents(Cause.node)

\* a missing root every task depends on is reported after the resolution raised
C14_Witness ==
    /\ pc = "raised"
    /\ IsMissingRootError(Cause)
    /\ Dependents(Cause.node) = TaskNames

\* C15: the cycle check runs before the root check: once validation has run
\* on declarations with a directed cycle, it has ended with the cycle error
\* and state() has been called on no root, missing roots or not.
C15_CycleCheckFirst ==
    (ValidationDone /\ DeclHasCycle) =>
        /\ IsCycleError(Cause)
        /\ root_queries = {}

\* validation has failed on a graph with a cycle and a missing root
C15_Witness ==
    /\ pc = "except"
    /\ DeclHasCycle
    /\ MissingRoots # {}
    /\ ~SelectionStarted

Stages ==
    <<"pytask_resolve_dependencies_create_dag",
      "pytask_resolve_dependencies_validate_dag",
      "pytask_resolve_dependencies_select_execution_dag">>

IsStage(h) == \E i \in 1..Len(Stages) : Stages[i] = h

\* the stage hooks called so far, in order
StageCalls == SelectSeq(hook_calls, IsStage)

\* the selector has not been called, has looked nothing up and marked nothing
NoSelection ==
    /\ ~SelectionStarted
    /\ evaluated = {}
    /\ \A t \in TaskNames : markers[t] = <<>>

\* C16: the stages are called in the order build, validate, select, each at most
\* once; after an error no further stage is called; and when validation fails
\* (a cycle, a missing root, or a failing state query) the selector is never
\* called, no neighbourhood is evaluated and no marker is attached.
C16_StageOrder ==
    /\ [](\E k \in 0..Len(Stages) : StageCalls = SubSeq(Stages, 1, k))
    /\ [](~SelectionStarted => NoSelection)
    /\ []((ValidationDone /\ (DeclHasCycle \/ MissingRoots # {})) => NoSelection)
    /\ [][Cause # None => StageCalls' = StageCalls]_vars

\* the resolution has raised after validation failed, with records to look up
C16_Witness ==
    /\ pc = "raised"
    /\ ValidationDone
    /\ NoSelection
    /\ DOMAIN db # {}

\* C17: a task in visited_nodes is not evaluated from then on: no step adds it
\* to the tasks whose neighbourhood was evaluated; it never carries
\* skip_unchanged; and one whose own neighbourhood is unchanged (so it is
\* there as the descendant of a changed task) has not been evaluated at all.
C17_NoEvaluationAfterPropagation ==
    /\ [](\A t \in visited_nodes :
            /\ ~SkipUnchanged(t)
            /\ NeighbourhoodUnchanged(t) => t \notin evaluated)
    /\ [][\A t \in visited_nodes : t \in evaluated' => t \in evaluated]_vars

\* the loop is over, and a task with an unchanged neighbourhood of its own was
\* passed over because a changed task upstream had put it in visited_nodes
C17_Witness ==
    /\ pc = "select_loop"
    /\ sorted = <<>>
    /\ \E t \in visited_nodes :
          /\ NeighbourhoodUnchanged(t)
          /\ t \notin evaluated
          /\ \E u \in evaluated : Reaches(u, t)

\* the tasks from which t is reached along declared edges
AncestorTasks(t) == {u \in TaskNames : u # t /\ Reaches(u, t)}

\* C18: whichever topological order the selector took, the tasks carrying
\* skip_unchanged after the pass are exactly the tasks whose own neighbourhood
\* and the neighbourhood of every ancestor task are all unchanged.
C18_OrderIndependentDecisions ==
    pc = "returned" =>
        \A t \in TaskNames :
            SkipUnchanged(t) <=>
                \A u \in {t} \cup AncestorTasks(t) : NeighbourhoodUnchanged(u)

\* a finished pass over two tasks that may come in either order, one marked
\* and one not
C18_Witness ==
    /\ pc = "returned"
    /\ \E t, u \in TaskNames :
          /\ u \notin AncestorTasks(t) /\ t \notin AncestorTasks(u)
          /\ SkipUnchanged(t) /\ ~SkipUnchanged(u)
          /\ tasks[t].depends_on # {} /\ tasks[u].depends_on # {}

\* the loop of the selector has gone through every task
PassFinished == (pc = "select_loop" /\ sorted = <<>>) \/ pc = "returned"

\* C19: when the select pass has finished, every task either carries exactly
\* one skip_unchanged marker or is in visited_nodes, never both and never
\* neither, and visited_nodes holds names of tasks only.
C19_DecisionPartition ==
    PassFinished =>
        /\ visited_nodes \subseteq TaskNames
        /\ \A t \in TaskNames :
              IF t \in visited_nodes
              THEN ~SkipUnchanged(t)
              ELSE markers[t] = <<"skip_unchanged">>

\* a finished pass that marked one task and put the other, which produces a
\* data node, in visited_nodes
C19_Witness ==
    /\ PassFinished
    /\ \E t \in TaskNames : markers[t] = <<"skip_unchanged">>
    /\ \E t \in visited_nodes : tasks[t].produces # {}

====
